---------------------------- MODULE Spec2Model ----------------------------
(***************************************************************************)
(* Model of si_prefix/__init__.py: split, prefix, si_format, si_parse,     *)
(* si_prefix_scale and si_prefix_expof10 over the table SI_PREFIX_UNITS.   *)
(*                                                                         *)
(* Numbers are exact decimals [m |-> mantissa digits, e |-> exponent],     *)
(* standing for m * 10^e, kept normalised (m = 0 => e = 0, otherwise m is  *)
(* not a multiple of 10).  Text is a sequence of one-character strings.    *)
(*                                                                         *)
(* The arithmetic is exact: the rounding error of the binary floats in     *)
(* log10 and in value * 10 ** (-expof10) is not modelled.  The one place   *)
(* where the binary value decides a result the decimal cannot, a decimal   *)
(* tie under '{:.2f}', is a nondeterministic choice (tieUp).               *)
(***************************************************************************)
EXTENDS Integers, Sequences, FiniteSets, TLC

VARIABLES units, op, arg, result, pc

vars == <<units, op, arg, result, pc>>

---------------------------------------------------------------------------
(* Bounds of the checked input space.                                      *)

\* largest |decimal exponent| of a value handed to split / si_format
MaxExp10 == 31
\* largest |expof10| handed to prefix
MaxPrefixExp == 30
\* longest text handed to si_parse (beyond the listed examples)
MaxLen == 4
\* longest argument handed to si_prefix_scale / si_prefix_expof10
MaxArgLen == 2

---------------------------------------------------------------------------
(* Exact decimal arithmetic.                                               *)

Abs(n) == IF n < 0 THEN -n ELSE n

RECURSIVE Pow10(_)
Pow10(k) == IF k = 0 THEN 1 ELSE 10 * Pow10(k - 1)

RECURSIVE NumDigits(_)
NumDigits(n) == IF n < 10 THEN 1 ELSE 1 + NumDigits(n \div 10)

RECURSIVE Norm(_, _)
Norm(m, e) == IF m = 0 THEN [m |-> 0, e |-> 0]
              ELSE IF m % 10 = 0 THEN Norm(m \div 10, e + 1)
              ELSE [m |-> m, e |-> e]

\* the decimal x lies in [10^(Mag(x)-1), 10^Mag(x)) in magnitude
Mag(x) == NumDigits(Abs(x.m)) + x.e

DecNeg(x)       == [m |-> -x.m, e |-> x.e]
DecAbs(x)       == [m |-> Abs(x.m), e |-> x.e]
DecScale(x, k)  == IF x.m = 0 THEN x ELSE [m |-> x.m, e |-> x.e + k]
DecIsZero(x)    == x.m = 0
DecIsNeg(x)     == x.m < 0
DecZero         == [m |-> 0, e |-> 0]

---------------------------------------------------------------------------
(* The prefix table and the normaliser.                                    *)

\* variant: the table with both the ASCII 'u' and the micro sign
SI_PREFIX_UNITS_WithU ==
    <<"y", "z", "a", "f", "p", "n", "u", "µ", "m", " ",
      "k", "M", "G", "T", "P", "E", "Z", "Y">>

SI_PREFIX_UNITS ==
    <<"y", "z", "a", "f", "p", "n", "µ", "m", " ",
      "k", "M", "G", "T", "P", "E", "Z", "Y">>

\* int(log10(value)) for value > 0: log10 truncated toward zero
IntLog10(value) ==
    LET fl == Mag(value) - 1
    IN  IF fl >= 0 \/ value.m = 1 THEN fl ELSE fl + 1

\* lines 87-90: the estimate moved to a multiple of 3
RoundExpof10(expof10) ==
    IF expof10 > 0 THEN (expof10 \div 3) * 3
    ELSE IF expof10 < 0 THEN ((-expof10 + 3) \div 3) * (-3)
    ELSE expof10

\* line 92: value *= 10 ** (-expof10)
Rescale(value, expof10) == DecScale(value, -expof10)

\* variant: the correction divides by 1000 but leaves expof10 alone
Correct_NoExpBump(value, expof10) ==
    IF Mag(value) >= 4
    THEN <<DecScale(value, -3), expof10>>
    ELSE <<value, expof10>>

\* lines 94-96: the boundary correction
Correct(value, expof10) ==
    IF Mag(value) >= 4
    THEN <<DecScale(value, -3), expof10 + 3>>
    ELSE <<value, expof10>>

split(value) ==
    IF DecIsZero(value) THEN <<DecZero, 0>>
    ELSE LET negative == DecIsNeg(value)
             v        == DecAbs(value)
             expof10  == RoundExpof10(IntLog10(v))
             c        == Correct(Rescale(v, expof10), expof10)
         IN  <<IF negative THEN DecNeg(c[1]) ELSE c[1], c[2]>>

---------------------------------------------------------------------------
(* Outcomes of a call: a returned value or a raised exception.             *)

Ok(v)    == [kind |-> "ok", val |-> v]
Raise(k) == [kind |-> k, val |-> <<>>]

---------------------------------------------------------------------------
(* Text helpers: Python's str operations used by the module.               *)

DigitChars == <<"0", "1", "2", "3", "4", "5", "6", "7", "8", "9">>

IsDigit(c) == \E i \in 1..10 : DigitChars[i] = c
IsSpace(c) == c = " "
IsSign(c)  == c = "+" \/ c = "-"

DigitVal(c) == (CHOOSE i \in 1..10 : DigitChars[i] = c) - 1

\* str(n) for an integer n
RECURSIVE NatToStr(_)
NatToStr(n) == IF n < 10 THEN <<DigitChars[n + 1]>>
               ELSE Append(NatToStr(n \div 10), DigitChars[(n % 10) + 1])

IntToStr(n) == IF n < 0 THEN <<"-">> \o NatToStr(-n) ELSE NatToStr(n)

\* str.rstrip()
RECURSIVE RStrip(_)
RStrip(s) == IF s # <<>> /\ IsSpace(s[Len(s)]) THEN RStrip(SubSeq(s, 1, Len(s) - 1))
             ELSE s

\* str.strip()
RECURSIVE LStrip(_)
LStrip(s) == IF s # <<>> /\ IsSpace(s[1]) THEN LStrip(Tail(s)) ELSE s

Strip(s) == LStrip(RStrip(s))

\* str.index(sub): the lowest 0-based offset at which sub occurs in s
Occurs(s, sub, i) == i + Len(sub) <= Len(s) /\ SubSeq(s, i + 1, i + Len(sub)) = sub

StrIndex(s, sub) ==
    IF \E i \in 0..Len(s) : Occurs(s, sub, i)
    THEN Ok(CHOOSE i \in 0..Len(s) :
               Occurs(s, sub, i) /\ \A j \in 0..(i - 1) : ~Occurs(s, sub, j))
    ELSE Raise("ValueError")

---------------------------------------------------------------------------
(* prefix and the inverse lookups.                                         *)

\* line 112 (also 273, 306)
PrefixLevels(table) == (Len(table) - 1) \div 2

\* variant: the quotient truncated toward zero instead of floored
SiLevel_Trunc(expof10) ==
    IF expof10 >= 0 THEN expof10 \div 3 ELSE -((-expof10) \div 3)

\* line 113
SiLevel(expof10) == expof10 \div 3

\* variant: the range test rejects the outermost level too
prefix_Strict(table, expof10) ==
    LET prefix_levels == PrefixLevels(table)
        si_level      == SiLevel(expof10)
    IN  IF Abs(si_level) >= prefix_levels
        THEN Raise("ValueError")
        ELSE Ok(table[si_level + prefix_levels + 1])

prefix(table, expof10) ==
    LET prefix_levels == PrefixLevels(table)
        si_level      == SiLevel(expof10)
    IN  IF Abs(si_level) > prefix_levels
        THEN Raise("ValueError")
        ELSE Ok(table[si_level + prefix_levels + 1])

\* variant: the offset is not centred on the no-prefix slot
si_prefix_expof10_Uncentred(table, si_unit) ==
    LET idx == StrIndex(table, si_unit)
    IN  IF idx.kind # "ok" THEN idx
        ELSE Ok(3 * idx.val)

si_prefix_expof10(table, si_unit) ==
    LET prefix_levels == PrefixLevels(table)
        idx           == StrIndex(table, si_unit)
    IN  IF idx.kind # "ok" THEN idx
        ELSE Ok(3 * (idx.val - prefix_levels))

\* 10 ** n as a decimal
TenTo(n) == [m |-> 1, e |-> n]

si_prefix_scale(table, si_unit) ==
    LET x == si_prefix_expof10(table, si_unit)
    IN  IF x.kind # "ok" THEN x ELSE Ok(TenTo(x.val))

---------------------------------------------------------------------------
(* si_format with the default templates.                                   *)

\* |x| * 100 rounded to an integer; tieUp settles an exact decimal tie,
\* which the binary value of the float decides in the program
Hundredths(x, tieUp) ==
    LET d == Abs(x.m)
        k == x.e + 2
    IN  IF k >= 0 THEN d * Pow10(k)
        ELSE IF -k > NumDigits(d) THEN 0
        ELSE LET q  == Pow10(-k)
                 h0 == d \div q
                 r  == d % q
             IN  IF 2 * r > q \/ (2 * r = q /\ tieUp) THEN h0 + 1 ELSE h0

\* '{value:.2f}'
FormatFixed2(x, tieUp) ==
    LET h == Hundredths(x, tieUp)
    IN  (IF DecIsNeg(x) THEN <<"-">> ELSE <<>>)
        \o NatToStr(h \div 100)
        \o <<".", DigitChars[((h % 100) \div 10) + 1], DigitChars[(h % 10) + 1]>>

\* line 231: u'{value:.2f} {prefix}'
FormatStr(value, pfx, tieUp) == FormatFixed2(value, tieUp) \o <<" ">> \o pfx

\* lines 233-234: u'{value:.2f}e{expof10}'
ExpFormatStr(value, expof10, tieUp) ==
    LET sign == IF expof10 > 0 THEN <<"+">> ELSE <<>>
    IN  FormatFixed2(value, tieUp) \o <<"e">> \o sign \o IntToStr(expof10)

\* variant: a mantissa that rounds to 1000.00 is rolled over to the next level
si_format_RollOver(table, value, tieUp) ==
    LET s0 == split(value)
        s  == IF Hundredths(s0[1], tieUp) = 100000
              THEN <<Norm(IF DecIsNeg(s0[1]) THEN -1 ELSE 1, 0), s0[2] + 3>>
              ELSE s0
        p  == prefix(table, s[2])
    IN  IF p.kind = "ok"
        THEN FormatStr(s[1], RStrip(<<p.val>>), tieUp)
        ELSE ExpFormatStr(s[1], s[2], tieUp)

si_format(table, value, tieUp) ==
    LET s == split(value)
        p == prefix(table, s[2])
    IN  IF p.kind = "ok"
        THEN FormatStr(s[1], RStrip(<<p.val>>), tieUp)
        ELSE ExpFormatStr(s[1], s[2], tieUp)

---------------------------------------------------------------------------
(* float(text): Python's decimal float syntax over the modelled characters *)

RECURSIVE DigitRun(_, _)
\* number of consecutive digits of s from position p (1-based)
DigitRun(s, p) == IF p <= Len(s) /\ IsDigit(s[p]) THEN 1 + DigitRun(s, p + 1) ELSE 0

RECURSIVE SpaceRun(_, _)
SpaceRun(s, p) == IF p <= Len(s) /\ IsSpace(s[p]) THEN 1 + SpaceRun(s, p + 1) ELSE 0

RECURSIVE StrToNat(_)
StrToNat(s) == IF s = <<>> THEN 0
               ELSE 10 * StrToNat(SubSeq(s, 1, Len(s) - 1)) + DigitVal(s[Len(s)])

Seg(s, p, n) == SubSeq(s, p, p + n - 1)

float(text) ==
    LET t     == Strip(text)
        sl    == IF t # <<>> /\ IsSign(t[1]) THEN 1 ELSE 0
        neg   == sl = 1 /\ t[1] = "-"
        il    == DigitRun(t, sl + 1)
        dot   == sl + il + 1 <= Len(t) /\ t[sl + il + 1] = "."
        fl    == IF dot THEN DigitRun(t, sl + il + 2) ELSE 0
        ml    == sl + il + (IF dot THEN 1 + fl ELSE 0)
        hasE  == ml + 1 <= Len(t) /\ (t[ml + 1] = "e" \/ t[ml + 1] = "E")
        esl   == IF hasE /\ ml + 2 <= Len(t) /\ IsSign(t[ml + 2]) THEN 1 ELSE 0
        eneg  == esl = 1 /\ t[ml + 2] = "-"
        el    == IF hasE THEN DigitRun(t, ml + 2 + esl) ELSE 0
        total == ml + (IF hasE THEN 1 + esl + el ELSE 0)
        digs  == Seg(t, sl + 1, il) \o Seg(t, sl + il + 2, fl)
        ex    == IF hasE THEN StrToNat(Seg(t, ml + 2 + esl, el)) ELSE 0
        n     == StrToNat(digs)
    IN  IF il + fl >= 1 /\ (hasE => el >= 1) /\ total = Len(t)
        THEN Ok(Norm(IF neg THEN -n ELSE n, (IF eneg THEN -ex ELSE ex) - fl))
        ELSE Raise("ValueError")

---------------------------------------------------------------------------
(* The two patterns of si_parse.  A match is a tuple of group lengths; the *)
(* backtracking matcher returns the valid tuple that is greatest in        *)
(* lexicographic order (every quantifier is greedy).                       *)

AllSpace(s)   == \A i \in 1..Len(s) : IsSpace(s[i])
AllDigits(s)  == \A i \in 1..Len(s) : IsDigit(s[i])

\* [\+\-]?\d+
IsIntegerText(s) ==
    /\ s # <<>>
    /\ IF IsSign(s[1]) THEN Len(s) >= 2 /\ AllDigits(Tail(s)) ELSE AllDigits(s)

\* .\d+  (the dot is unescaped: any character)
IsFractionText(s) == Len(s) >= 2 /\ AllDigits(Tail(s))

\* [eE]\s*[\+\-]?\d+
IsExponentText(s) ==
    /\ s # <<>>
    /\ (s[1] = "e" \/ s[1] = "E")
    /\ IsIntegerText(SubSeq(s, 2 + SpaceRun(s, 2), Len(s)))

RECURSIVE LexGreater(_, _)
LexGreater(t, u) ==
    /\ t # <<>>
    /\ \/ Head(t) > Head(u)
       \/ Head(t) = Head(u) /\ LexGreater(Tail(t), Tail(u))

FirstMatch(valid) ==
    IF valid = {} THEN <<>>
    ELSE CHOOSE t \in valid : \A u \in valid : ~LexGreater(u, t)

\* lengths the group (?P<integer>[\+\-]?\d+)? can take at position p; 0 = no group
IntegerLens(s, p) ==
    {0} \cup { k \in 1..(Len(s) - p + 1) : IsIntegerText(Seg(s, p, k)) }

\* lengths the group (?P<fraction>.\d+)? can take at position p; 0 = no group
FractionLens(s, p) ==
    {0} \cup { k \in 2..(Len(s) - p + 1) : IsFractionText(Seg(s, p, k)) }

\* lines 256-258: <<ws, integer, fraction, ws, exponent group>>
Match10E(s) ==
    LET n == Len(s)
    IN  FirstMatch(UNION { UNION { UNION {
          { <<a, i, f, b, n - (a + i + f + b)>> :
              b \in { w \in 0..SpaceRun(s, a + i + f + 1) :
                        LET x == n - (a + i + f + w)
                        IN  x = 0 \/ IsExponentText(Seg(s, a + i + f + w + 1, x)) } }
          : f \in FractionLens(s, a + i + 1) }
          : i \in IntegerLens(s, a + 1) }
          : a \in 0..SpaceRun(s, 1) })

\* (?P<si_unit>[%s])? at position p
UnitLens(table, s, p) ==
    {0} \cup { k \in {1} : p <= Len(s) /\ \E j \in 1..Len(table) : table[j] = s[p] }

\* lines 259-261: <<ws, integer, fraction, ws, si_unit, ws>>
MatchSI(table, s) ==
    LET n == Len(s)
    IN  FirstMatch(UNION { UNION { UNION { UNION {
          { <<a, i, f, b, u, n - (a + i + f + b + u)>> :
              u \in { k \in UnitLens(table, s, a + i + f + b + 1) :
                        AllSpace(SubSeq(s, a + i + f + b + k + 1, n)) } }
          : b \in 0..SpaceRun(s, a + i + f + 1) }
          : f \in FractionLens(s, a + i + 1) }
          : i \in IntegerLens(s, a + 1) }
          : a \in 0..SpaceRun(s, 1) })

si_parse(table, value) ==
    LET m10 == Match10E(value)
        msi == MatchSI(table, value)
    IN  IF m10 # <<>>
        THEN IF m10[2] > 0 \/ m10[3] > 0 THEN float(value)
             ELSE Raise("AssertionError")
        ELSE IF msi = <<>> THEN Raise("AttributeError")
        ELSE IF ~(msi[2] > 0 \/ msi[3] > 0) THEN Raise("AssertionError")
        ELSE LET number        == Seg(value, msi[1] + 1, msi[2] + msi[3])
                 si_unit       == IF msi[5] > 0
                                  THEN <<value[msi[1] + msi[2] + msi[3] + msi[4] + 1]>>
                                  ELSE <<" ">>
                 prefix_levels == PrefixLevels(table)
                 idx           == StrIndex(table, si_unit)
                 num           == float(number)
             IN  IF idx.kind # "ok" THEN idx
                 ELSE IF num.kind # "ok" THEN num
                 ELSE Ok(DecScale(num.val, 3 * (idx.val - prefix_levels)))

---------------------------------------------------------------------------
(* Inputs.                                                                 *)

\* digit patterns of the values handed to split and si_format
Mantissas == {1, 2, 5, 15, 104, 105, 995, 999, 4781, 99999, 999995, 999999}

Values ==
    {DecZero} \cup
    { Norm(sg * d, x) : sg \in {1, -1}, d \in Mantissas, x \in (-MaxExp10)..MaxExp10 }

PrefixArgs == (-MaxPrefixExp)..MaxPrefixExp

\* characters of the texts handed to si_parse
Alphabet == {"1", "5", ".", "-", " ", "k", "E"}

Examples ==
    { <<"a", "b", "c">>,
      <<"6", ".", "9", "5", "k">>,
      <<"1", ".", "2", "7", " ", "µ">>,
      <<"+", ".", "5", "k">>,
      <<"1", "5", ".", "5", "1", "e", "+", "2", "7">>,
      <<"1", ".", "0", "0", "e", "-", "2", "7">>,
      <<"1", " ", "e", "5">>,
      <<"e", " ", "5">>,
      <<"1", "x", "5">>,
      <<" ", "-", "1", ".", "5", " ", "Y", " ">> }

Texts == UNION { [1..n -> Alphabet] : n \in 0..MaxLen } \cup Examples

\* arguments handed to the inverse lookups: any short string
LookupAlphabet == { SI_PREFIX_UNITS[i] : i \in 1..Len(SI_PREFIX_UNITS) } \cup {"u", "x"}

LookupArgs == UNION { [1..n -> LookupAlphabet] : n \in 0..MaxArgLen }

---------------------------------------------------------------------------
(* The state machine: one pending call, applied by the action of its       *)
(* operation.  units is the module-level table.                            *)

Pending == [kind |-> "pending", val |-> <<>>]

Init ==
    /\ units = SI_PREFIX_UNITS
    /\ pc = "call"
    /\ result = Pending
    /\ \/ op = "split" /\ arg \in Values
       \/ op = "prefix" /\ arg \in PrefixArgs
       \/ op = "si_format" /\ arg \in Values
       \/ op = "si_parse" /\ arg \in Texts
       \/ op = "si_prefix_scale" /\ arg \in LookupArgs
       \/ op = "si_prefix_expof10" /\ arg \in LookupArgs

Split ==
    /\ pc = "call" /\ op = "split"
    /\ result' = Ok(split(arg))
    /\ pc' = "done"
    /\ UNCHANGED <<units, op, arg>>

Prefix ==
    /\ pc = "call" /\ op = "prefix"
    /\ result' = prefix(units, arg)
    /\ pc' = "done"
    /\ UNCHANGED <<units, op, arg>>

SiFormat ==
    /\ pc = "call" /\ op = "si_format"
    /\ \E tieUp \in BOOLEAN : result' = Ok(si_format(units, arg, tieUp))
    /\ pc' = "done"
    /\ UNCHANGED <<units, op, arg>>

SiParse ==
    /\ pc = "call" /\ op = "si_parse"
    /\ result' = si_parse(units, arg)
    /\ pc' = "done"
    /\ UNCHANGED <<units, op, arg>>

SiPrefixScale ==
    /\ pc = "call" /\ op = "si_prefix_scale"
    /\ result' = si_prefix_scale(units, arg)
    /\ pc' = "done"
    /\ UNCHANGED <<units, op, arg>>

SiPrefixExpof10 ==
    /\ pc = "call" /\ op = "si_prefix_expof10"
    /\ result' = si_prefix_expof10(units, arg)
    /\ pc' = "done"
    /\ UNCHANGED <<units, op, arg>>

Next ==
    \/ Split
    \/ Prefix
    \/ SiFormat
    \/ SiParse
    \/ SiPrefixScale
    \/ SiPrefixExpof10

Spec == Init /\ [][Next]_vars

Returned(o) == pc = "done" /\ op = o

---------------------------------------------------------------------------
(* Properties of split.                                                    *)

\* C1: for every nonzero v the mantissa of split(v) satisfies
\* 1 <= abs(m) < 1000, and split(0) = (0.0, 0).
C1_MantissaInRange ==
    Returned("split") =>
        IF DecIsZero(arg) THEN result.val = <<DecZero, 0>>
        ELSE Mag(result.val[1]) >= 1 /\ Mag(result.val[1]) <= 3

\* C2: split(v) = (m, e) has e a multiple of 3, m * 10^e = v and m of the
\* sign of v, whether or not the boundary correction fires.
C2_SplitExact ==
    Returned("split") =>
        LET m == result.val[1]
            e == result.val[2]
        IN  /\ e % 3 = 0
            /\ DecScale(m, e) = arg
            /\ (m.m < 0 <=> arg.m < 0)
            /\ (m.m = 0 <=> arg.m = 0)

\* the rescaled value reached 1000 and the correction fired, on a negative input
C2_Witness ==
    /\ Returned("split")
    /\ DecIsNeg(arg)
    /\ Mag(Rescale(DecAbs(arg), RoundExpof10(IntLog10(DecAbs(arg))))) >= 4
    /\ result.val[2] = RoundExpof10(IntLog10(DecAbs(arg))) + 3

---------------------------------------------------------------------------
(* Properties of si_format.                                                *)

\* |p - v| <= |v| / 100
Within1Pct(p, v) ==
    IF v.m = 0 THEN p.m = 0
    ELSE IF p.m = 0 \/ (p.m < 0) # (v.m < 0) THEN FALSE
    ELSE IF Abs(Mag(p) - Mag(v)) >= 2 THEN FALSE
    ELSE LET e0 == IF p.e < v.e THEN p.e ELSE v.e
             P  == Abs(p.m) * Pow10(p.e - e0)
             V  == Abs(v.m) * Pow10(v.e - e0)
         IN  Abs(P - V) * 100 <= V

InPrefixRange(v) == split(v)[2] >= -24 /\ split(v)[2] <= 24

\* C3: for every value within the prefix range, si_parse(si_format(v))
\* equals v within 1% relative error.
C3_RoundTrip ==
    Returned("si_format") /\ InPrefixRange(arg) =>
        LET p == si_parse(units, result.val)
        IN  p.kind = "ok" /\ Within1Pct(p.val, arg)

\* C4: within -24..24 the output is the first template with the mantissa and
\* the table symbol of e (nothing for e = 0); outside it is the second
\* template with the same mantissa and e, signed '+' or '-'; no error escapes.
C4_Templates ==
    Returned("si_format") =>
        LET m == split(arg)[1]
            e == split(arg)[2]
        IN  /\ result.kind = "ok"
            /\ \E t \in BOOLEAN :
                 result.val =
                    IF -24 <= e /\ e <= 24
                    THEN FormatFixed2(m, t) \o <<" ">> \o
                         (IF e = 0 THEN <<>> ELSE <<units[(e \div 3) + 9]>>)
                    ELSE FormatFixed2(m, t) \o <<"e">> \o
                         (IF e > 0 THEN <<"+">> ELSE <<"-">>) \o NatToStr(Abs(e))

\* a value beyond yotta rendered with the exponent template
C4_Witness ==
    /\ Returned("si_format")
    /\ split(arg)[2] = 27
    /\ \E i \in 1..Len(result.val) - 1 : result.val[i] = "e" /\ result.val[i + 1] = "+"

\* the number shown by si_format, in hundredths: the text before ' ' or 'e'
RECURSIVE NumberText(_)
NumberText(s) ==
    IF s = <<>> \/ s[1] = " " \/ s[1] = "e" THEN <<>>
    ELSE IF s[1] = "-" \/ s[1] = "." THEN NumberText(Tail(s))
    ELSE <<s[1]>> \o NumberText(Tail(s))

RenderedHundredths(s) == StrToNat(NumberText(s))

\* C10 as stated: the rendered number is strictly below 1000.00 for every
\* nonzero value.
C10_Below1000 ==
    Returned("si_format") /\ ~DecIsZero(arg) => RenderedHundredths(result.val) < 100000

\* C10 amended: the rendered number is at most 1000.00 and is the mantissa
\* of split rounded to two decimals, so a mantissa that rounds up to
\* 1000.00 is shown as 1000.00 at the level split chose (no roll-over).
C10_AtMost1000 ==
    Returned("si_format") /\ ~DecIsZero(arg) =>
        /\ RenderedHundredths(result.val) <= 100000
        /\ \E t \in BOOLEAN :
             RenderedHundredths(result.val) = Hundredths(split(arg)[1], t)

\* 999999e-3 * 1000 shown as 1000.00 k
C10_Witness ==
    /\ Returned("si_format")
    /\ arg = [m |-> 999999, e |-> 0]
    /\ result.val = <<"1", "0", "0", "0", ".", "0", "0", " ", "k">>

---------------------------------------------------------------------------
(* Properties of prefix and the inverse lookups.                           *)

\* C5 as stated: for every integer exp, prefix(exp) raises the range error
\* exactly when |exp| > 24 and otherwise returns a table symbol;
\* prefix(24) = 'Y', prefix(-24) = 'y'.
C5_RangeSymmetric ==
    Returned("prefix") =>
        /\ (result.kind = "ValueError" <=> Abs(arg) > 24)
        /\ (Abs(arg) <= 24 => result.kind = "ok")
        /\ (arg = 24 => result = Ok("Y"))
        /\ (arg = -24 => result = Ok("y"))
        /\ units = SI_PREFIX_UNITS

\* C5 amended: prefix(exp) raises the range error exactly when
\* exp < -24 or exp > 26 (floor(exp / 3) beyond 8 levels), hence for a
\* multiple of 3 exactly when |exp| > 24; otherwise it returns the symbol
\* at index floor(exp / 3) + 8 and the table is unchanged.
C5_RangeFloor ==
    Returned("prefix") =>
        /\ (result.kind = "ValueError" <=> (arg < -24 \/ arg > 26))
        /\ (arg >= -24 /\ arg <= 26 =>
              \E level \in -8..8 :
                 /\ 3 * level <= arg /\ arg < 3 * level + 3
                 /\ result = Ok(units[level + 9]))
        /\ (arg = 24 => result = Ok("Y"))
        /\ (arg = -24 => result = Ok("y"))
        /\ units = SI_PREFIX_UNITS

\* 26 is above 24 and still resolves to yotta
C5_Witness == Returned("prefix") /\ arg = 26 /\ result = Ok("Y")

IsTableSymbol(a) == Len(a) = 1 /\ \E i \in 1..Len(units) : units[i] = a[1]

SymbolIndex(c) == CHOOSE i \in 1..Len(units) : units[i] = c

\* a contiguous run of the table (the empty string included)
IsTableRun(a) ==
    \E i \in 0..Len(units) :
        \A j \in 1..Len(a) : i + j <= Len(units) /\ units[i + j] = a[j]

InverseOnSymbols ==
    /\ Returned("si_prefix_expof10") /\ IsTableSymbol(arg) =>
          /\ result = Ok(3 * (SymbolIndex(arg[1]) - 9))
          /\ prefix(units, result.val) = Ok(arg[1])
    /\ Returned("si_prefix_scale") /\ IsTableSymbol(arg) =>
          result = Ok(TenTo(3 * (SymbolIndex(arg[1]) - 9)))
    /\ Returned("prefix") /\ arg % 3 = 0 /\ Abs(arg) <= 24 =>
          /\ result.kind = "ok"
          /\ si_prefix_expof10(units, <<result.val>>) = Ok(arg)

\* C8 as stated: the lookups invert prefix on the table's symbols and raise
\* index-not-found for every argument that is not one of the symbols.
C8_InverseAllArgs ==
    /\ InverseOnSymbols
    /\ (Returned("si_prefix_expof10") \/ Returned("si_prefix_scale")) /\ ~IsTableSymbol(arg)
          => result.kind = "ValueError"

\* C8 amended: the lookups invert prefix on the table's symbols and raise
\* index-not-found for every one-character argument that is not a symbol;
\* the empty string and a longer run of the table (e.g. "kM") are found by
\* the substring search and do not fail, any other argument does.
C8_InverseRuns ==
    /\ InverseOnSymbols
    /\ (Returned("si_prefix_expof10") \/ Returned("si_prefix_scale")) =>
          /\ (Len(arg) = 1 /\ ~IsTableSymbol(arg) => result.kind = "ValueError")
          /\ (result.kind = "ValueError" <=> ~IsTableRun(arg))
          /\ (result.kind # "ValueError" => result.kind = "ok")

\* the run "kM" is located at the offset of 'k'
C8_Witness ==
    /\ Returned("si_prefix_expof10")
    /\ arg = <<"k", "M">>
    /\ result = Ok(3)

\* C9 as stated: the table is a constant sequence of exactly 18 symbols.
C9_EighteenSymbols == Len(units) = 18

\* C9 amended: the table is a constant ordered sequence of exactly 17
\* symbols (8 below the no-prefix slot, 8 above), never modified by any
\* operation.
C9_SeventeenSymbols ==
    /\ [](Len(units) = 17 /\ units[9] = " ")
    /\ [][units' = units]_vars

\* an operation has run and the table is as constructed
C9_Witness == pc = "done" /\ Len(units) = 17 /\ units[1] = "y" /\ units[17] = "Y"

---------------------------------------------------------------------------
(* Properties of si_parse.                                                 *)

\* C6: si_parse returns a float or fails with the assertion error; no other
\* failure kind is reachable.
C6_OneErrorKind ==
    Returned("si_parse") => result.kind \in {"ok", "AssertionError"}

\* The texts of C7, read left to right: sign, integer digits, '.' and
\* fraction digits, whitespace, at most one table symbol.
C7Sign(s)  == IF s # <<>> /\ IsSign(s[1]) THEN 1 ELSE 0
C7Int(s)   == DigitRun(s, C7Sign(s) + 1)
C7Dot(s)   == LET p == C7Sign(s) + C7Int(s) + 1
              IN  p <= Len(s) /\ s[p] = "." /\ DigitRun(s, p + 1) >= 1
C7Frac(s)  == IF C7Dot(s) THEN DigitRun(s, C7Sign(s) + C7Int(s) + 2) ELSE 0
C7NumLen(s) == C7Sign(s) + C7Int(s) + (IF C7Dot(s) THEN 1 + C7Frac(s) ELSE 0)
C7Space(s) == SpaceRun(s, C7NumLen(s) + 1)
C7HasSym(s) == LET p == C7NumLen(s) + C7Space(s) + 1
               IN  p <= Len(s) /\ IsTableSymbol(<<s[p]>>)

InC7Class(s) ==
    /\ C7Int(s) + C7Frac(s) >= 1
    /\ C7NumLen(s) + C7Space(s) + (IF C7HasSym(s) THEN 1 ELSE 0) = Len(s)

C7Expected(s) ==
    LET digs == Seg(s, C7Sign(s) + 1, C7Int(s))
                \o Seg(s, C7Sign(s) + C7Int(s) + 2, C7Frac(s))
        n    == StrToNat(digs)
        sc   == IF C7HasSym(s)
                THEN 3 * (SymbolIndex(s[C7NumLen(s) + C7Space(s) + 1]) - 9)
                ELSE 0
    IN  Norm(IF s[1] = "-" THEN -n ELSE n, sc - C7Frac(s))

\* C7: a signed decimal number, whitespace and at most one table symbol c
\* parse to the number times 10^(3 * (index(c) - 8)).
C7_ScaledNumber ==
    Returned("si_parse") /\ InC7Class(arg) => result = Ok(C7Expected(arg))

=============================================================================
